---- MODULE Spec2Model ----
(***************************************************************************)
(* A model of omnichat's core: the cyclic cursor (cursor_vec.rs) and the   *)
(* two backend adapters (discord_conn.rs, slack_conn.rs).  Each component  *)
(* has a specification of its own: CursorSpec, DiscordSpec, SlackSpec.    *)
(***************************************************************************)
EXTENDS Integers, Sequences, FiniteSets, TLC

VARIABLES
    index,            \* CursorVec.index
    vec,              \* CursorVec.vec
    overflow_checks,  \* build profile: TRUE = arithmetic overflow panics
    cursor_panicked,  \* a CursorVec method panicked
    calls,            \* the (at most two) most recent CursorVec calls
    conn,             \* the fields of the Connection (DiscordConn / SlackConn)
    sink,             \* every Event sent on the Sender<Event>, in order
    lock,             \* the RwLock around the Discord client handle
    hist_pc,          \* history thread -> where it is
    hist_msgs,        \* history thread -> messages still to send
    live_pc,          \* where the live-ingestion thread is
    live_in,          \* the backend events the live thread has received, in order
    caller_pc,        \* where the thread calling the Conn methods is
    call,             \* the most recent Conn method call
    n_calls,          \* Conn method calls made so far
    remote            \* remote calls issued by Conn methods, in order

cursorVars == <<index, vec, overflow_checks, cursor_panicked, calls>>

connVars == <<conn, sink, lock, hist_pc, hist_msgs, live_pc, live_in,
              caller_pc, call, n_calls, remote>>

vars == <<cursorVars, connVars>>

(***************************************************************************)
(* Bounds                                                                  *)
(***************************************************************************)
MaxLen == 3       \* longest vec the model grows
MaxArg == 4       \* largest index argument passed to wrapping_seek / try_get_at
MaxHist == 2      \* most messages in one history page
MaxLive == 2      \* backend events the live thread receives
MaxCalls == 1     \* Conn method calls the front end makes
MaxArgs == 2      \* most arguments passed to handle_cmd
MaxFaults == 2    \* most things wrong at once with what new() is answered
MaxForms == 2     \* most mention / channel forms in a text that is rewritten

Items == {"a", "b"}

(***************************************************************************)
(* CursorVec                                                               *)
(***************************************************************************)
UsizeBits == 64

\* 2^e mod m, by repeated doubling (the value 2^64 itself is never built).
RECURSIVE Pow2Mod(_, _)
Pow2Mod(e, m) == IF e = 0 THEN 1 % m ELSE (2 * Pow2Mod(e - 1, m)) % m

\* usize::MAX % m, i.e. (2^UsizeBits - 1) mod m
UsizeMaxMod(m) == (Pow2Mod(UsizeBits, m) + m - 1) % m

\* Option<&T>
None == "None"

\* next() without the modulo.
NextIndex_NoWrap(k, len) == k + 1

\* next(): self.index += 1; self.index %= self.vec.len();
NextIndex(k, len) == (k + 1) % len

\* prev(): self.index -= 1; self.index %= self.vec.len();
\* The decrement of 0 wraps to usize::MAX when overflow checks are off.
PrevIndex(k, len) == IF k >= 1 THEN (k - 1) % len ELSE UsizeMaxMod(len)

\* prev() panics on the decrement of 0 when overflow checks are on.
PrevOverflows(k, checks) == checks /\ k = 0

\* wrapping_seek() that clamps to the last position instead of wrapping.
SeekIndex_Clamp(i, len) == IF i < len THEN i ELSE len - 1

\* wrapping_seek(): self.index = index; self.index %= self.vec.len();
SeekIndex(i, len) == i % len

\* try_get_at(): self.vec.get(index) -- positions are 0-based
TryGetAt(v, i) == IF i < Len(v) THEN v[i + 1] ELSE None

\* push() that inserts at the front.
Push_Front(v, item) == <<item>> \o v

\* push(): self.vec.push(item)
Push(v, item) == Append(v, item)

\* The record of one call: the operation, its arguments, the state before
\* it, what it returned and whether it panicked.
Call(op, i, item, ret, fault) ==
    [op |-> op, i |-> i, item |-> item, pre |-> index, prevec |-> vec,
     ret |-> ret, fault |-> fault]

Record(c) == IF calls = <<>> THEN <<c>> ELSE <<calls[Len(calls)], c>>

\* new(first): index 0, vec![first]
CursorVec_new(first) ==
    /\ index = 0
    /\ vec = <<first>>

\* No Connection exists while the cursor is exercised on its own.
NoConn ==
    /\ conn = [adapter |-> "none"]
    /\ sink = <<>>
    /\ lock = [readers |-> {}, writer |-> FALSE, poisoned |-> FALSE]
    /\ hist_pc = <<>>
    /\ hist_msgs = <<>>
    /\ live_pc = "none"
    /\ live_in = <<>>
    /\ caller_pc = "none"
    /\ call = [op |-> "none"]
    /\ n_calls = 0
    /\ remote = <<>>

CursorInit ==
    /\ \E first \in Items : CursorVec_new(first)
    /\ overflow_checks \in BOOLEAN
    /\ cursor_panicked = FALSE
    /\ calls = <<>>
    /\ NoConn

CursorVec_get ==
    /\ ~cursor_panicked
    /\ IF index < Len(vec)
          THEN /\ calls' = Record(Call("get", 0, "", vec[index + 1], FALSE))
               /\ UNCHANGED cursor_panicked
          ELSE \* debug_assert! fails, or get_unchecked reads out of range
               /\ calls' = Record(Call("get", 0, "", None, TRUE))
               /\ cursor_panicked' = TRUE
    /\ UNCHANGED <<index, vec, overflow_checks>>
    /\ UNCHANGED connVars

CursorVec_first ==
    /\ ~cursor_panicked
    /\ IF Len(vec) > 0
          THEN /\ calls' = Record(Call("first", 0, "", vec[1], FALSE))
               /\ UNCHANGED cursor_panicked
          ELSE /\ calls' = Record(Call("first", 0, "", None, TRUE))
               /\ cursor_panicked' = TRUE
    /\ UNCHANGED <<index, vec, overflow_checks>>
    /\ UNCHANGED connVars

CursorVec_next ==
    /\ ~cursor_panicked
    /\ index' = NextIndex(index, Len(vec))
    /\ calls' = Record(Call("next", 0, "", None, FALSE))
    /\ UNCHANGED <<vec, overflow_checks, cursor_panicked>>
    /\ UNCHANGED connVars

CursorVec_prev ==
    /\ ~cursor_panicked
    /\ IF PrevOverflows(index, overflow_checks)
          THEN /\ cursor_panicked' = TRUE
               /\ calls' = Record(Call("prev", 0, "", None, TRUE))
               /\ UNCHANGED index
          ELSE /\ index' = PrevIndex(index, Len(vec))
               /\ calls' = Record(Call("prev", 0, "", None, FALSE))
               /\ UNCHANGED cursor_panicked
    /\ UNCHANGED <<vec, overflow_checks>>
    /\ UNCHANGED connVars

CursorVec_wrapping_seek(i) ==
    /\ ~cursor_panicked
    /\ index' = SeekIndex(i, Len(vec))
    /\ calls' = Record(Call("wrapping_seek", i, "", None, FALSE))
    /\ UNCHANGED <<vec, overflow_checks, cursor_panicked>>
    /\ UNCHANGED connVars

CursorVec_try_get_at(i) ==
    /\ ~cursor_panicked
    /\ calls' = Record(Call("try_get_at", i, "", TryGetAt(vec, i), FALSE))
    /\ UNCHANGED <<index, vec, overflow_checks, cursor_panicked>>
    /\ UNCHANGED connVars

CursorVec_push(item) ==
    /\ ~cursor_panicked
    /\ Len(vec) < MaxLen
    /\ vec' = Push(vec, item)
    /\ calls' = Record(Call("push", 0, item, None, FALSE))
    /\ UNCHANGED <<index, overflow_checks, cursor_panicked>>
    /\ UNCHANGED connVars

CursorNext ==
    \/ CursorVec_get
    \/ CursorVec_first
    \/ CursorVec_next
    \/ CursorVec_prev
    \/ \E i \in 0..MaxArg : CursorVec_wrapping_seek(i)
    \/ \E i \in 0..MaxArg : CursorVec_try_get_at(i)
    \/ \E item \in Items : CursorVec_push(item)

CursorSpec == CursorInit /\ [][CursorNext]_vars


(***************************************************************************)
(* Text: a String is a sequence of one-character strings                   *)
(***************************************************************************)
\* Whether pat occurs in t at position i (1-based).
MatchesAt(t, pat, i) ==
    /\ i + Len(pat) - 1 <= Len(t)
    /\ \A j \in 1..Len(pat) : t[i + j - 1] = pat[j]

\* str::contains
Contains(t, pat) == \E i \in 1..(Len(t) + 1) : MatchesAt(t, pat, i)

\* str::replace: every non-overlapping match of a non-empty pattern,
\* found left to right, is replaced.
RECURSIVE ReplaceFrom(_, _, _, _)
ReplaceFrom(t, from, to, i) ==
    IF i > Len(t) THEN <<>>
    ELSE IF MatchesAt(t, from, i)
         THEN to \o ReplaceFrom(t, from, to, i + Len(from))
         ELSE <<t[i]>> \o ReplaceFrom(t, from, to, i + 1)

Replace(t, from, to) == ReplaceFrom(t, from, to, 1)

\* The byte values of the characters the model's names are written in
Ascii == [c \in {"a", "b", "d", "e", "g", "l", "n", "o", "v", "x"} |->
            CASE c = "a" -> 97  [] c = "b" -> 98  [] c = "d" -> 100 [] c = "e" -> 101
              [] c = "g" -> 103 [] c = "l" -> 108 [] c = "n" -> 110 [] c = "o" -> 111
              [] c = "v" -> 118 [] c = "x" -> 120]

\* String's Ord: lexicographic by byte
RECURSIVE StrLeq(_, _)
StrLeq(a, b) ==
    IF a = <<>> THEN TRUE
    ELSE IF b = <<>> THEN FALSE
    ELSE IF a[1] = b[1] THEN StrLeq(Tail(a), Tail(b))
    ELSE Ascii[a[1]] < Ascii[b[1]]

\* String::insert(idx, ch), idx a 0-based offset
Insert(t, idx, ch) == SubSeq(t, 1, idx) \o <<ch>> \o SubSeq(t, idx + 1, Len(t))

(***************************************************************************)
(* BiMap: identifiers and human names paired by position                   *)
(***************************************************************************)
BiMap_new(human, id) == [human |-> human, id |-> id]

BiMap_contains_id(m, id) == \E k \in 1..Len(m.id) : m.id[k] = id

BiMap_contains_human(m, human) == \E k \in 1..Len(m.human) : m.human[k] = human

\* get_human(&id) of an id the map contains
BiMap_get_human(m, id) == m.human[CHOOSE k \in 1..Len(m.id) : m.id[k] = id]

\* get_id(&human) of a name the map contains
BiMap_get_id(m, human) == m.id[CHOOSE k \in 1..Len(m.human) : m.human[k] = human]

(***************************************************************************)
(* Events and the sink                                                     *)
(***************************************************************************)
NoText == <<>>

\* The Receiver<Event> is taken to live as long as the Connection, so every
\* send on the Sender succeeds (no expect("Sender died") panic).
\* An Event on the Sender.  `by` and `ts` are not part of the Event: `by`
\* names the thread (and the backend event or call) that sent it, `ts` the
\* timestamp of the backend message it was made from.
Event(kind, channel, sender, contents, is_mention, error, by, ts) ==
    [kind |-> kind, channel |-> channel, sender |-> sender,
     contents |-> contents, is_mention |-> is_mention, error |-> error,
     by |-> by, ts |-> ts]

NoTs == [secs |-> 0, sub |-> 0]

ErrorEvent(error, by) == Event("Error", NoText, NoText, NoText, FALSE, error, by, NoTs)

HistoryLoadedEvent(channel, by) ==
    Event("HistoryLoaded", channel, NoText, NoText, FALSE, "", by, NoTs)

\* A channel that hands over the last event sent first
Send_Front(s, e) == <<e>> \o s

\* Sender::send(e) on the mpsc channel whose Receiver is the sink: events
\* are received in the order they were sent
Send(s, e) == Append(s, e)

\* The threads spawned by new() and the thread calling the Conn methods
LiveThread == <<"live", 0>>
HistThread(c) == <<"history", c>>
Caller == "caller"

\* A call of a Conn method, with the state it started from
ConnCall(op, channel, cmd, args, outcome) ==
    [op |-> op, channel |-> channel, cmd |-> cmd, args |-> args,
     outcome |-> outcome, failed |-> FALSE, posts |-> <<>>, n |-> n_calls + 1,
     sink_before |-> Len(sink), remote_before |-> Len(remote),
     conn_before |-> conn]

\* A remote call issued by a Conn method
RemoteCall(op, arg) == [op |-> op, arg |-> arg]

\* The argument lists of at most n arguments drawn from S
RECURSIVE ArgLists(_, _)
ArgLists(S, n) ==
    IF n = 0 THEN {<<>>}
    ELSE {<<>>} \cup {<<x>> \o rest : x \in S, rest \in ArgLists(S, n - 1)}

\* No CursorVec is exercised while a Connection runs.
NoCursor ==
    /\ index = 0
    /\ vec = <<"a">>
    /\ overflow_checks = FALSE
    /\ cursor_panicked = FALSE
    /\ calls = <<>>

(***************************************************************************)
(* DiscordConn (discord_conn.rs)                                           *)
(***************************************************************************)
Txt_hi == <<"h", "i">>

DiscordServerName == "srv"

\* The server's channels the session may read and post to, as listed
DiscordChannelIds == <<1>>
DiscordChannelNames == <<<<"g", "e", "n">>>>

\* A channel of the server that is not in the table (no permission, or
\* not a text channel)
DiscordOtherChannelId == 3

DiscordUserId == <<"7">>

\* UserId::mention(): "<@id>"
DiscordMention(id) == <<"<", "@">> \o id \o <<">">>

\* my_mention: format!("{}", current_user.id.mention()) with '!' inserted at 2
DiscordMyMention == Insert(DiscordMention(DiscordUserId), 2, "!")

\* chrono timestamps: whole seconds and a sub-second part
DiscordTimestamps ==
    {[secs |-> 1, sub |-> 0], [secs |-> 1, sub |-> 5], [secs |-> 2, sub |-> 0]}

\* DateTime::timestamp(): the whole seconds
Timestamp(t) == t.secs

TsLess(a, b) == a.secs < b.secs \/ (a.secs = b.secs /\ a.sub < b.sub)

\* The history pages the backend may answer with: at most MaxHist messages
\* with distinct timestamps, in any order
DiscordMessage(t) == [timestamp |-> t, author |-> <<"b", "o">>, content |-> Txt_hi]

RECURSIVE PagesOf(_, _)
PagesOf(S, n) ==
    IF n = 0 THEN {<<>>}
    ELSE {<<>>} \cup
         UNION {{<<x>> \o rest : rest \in PagesOf(S \ {x}, n - 1)} : x \in S}

DiscordPages == PagesOf({DiscordMessage(t) : t \in DiscordTimestamps}, MaxHist)

\* messages.sort_by_key(|m| m.timestamp.timestamp()): a stable sort
RECURSIVE SortByTimestamp(_)
SortByTimestamp(msgs) ==
    IF msgs = <<>> THEN <<>>
    ELSE LET init == SortByTimestamp(SubSeq(msgs, 1, Len(msgs) - 1))
             m == msgs[Len(msgs)]
             \* m goes after every element whose key is <= its own
             k == Cardinality({j \in 1..Len(init) :
                                  Timestamp(init[j].timestamp) <= Timestamp(m.timestamp)})
         IN  SubSeq(init, 1, k) \o <<m>> \o SubSeq(init, k + 1, Len(init))

\* The events the gateway may push
DiscordLiveTexts == {Txt_hi, <<"o">> \o DiscordMyMention}

DiscordEvents ==
    {[kind |-> "MessageCreate", channel_id |-> c, content |-> t, author |-> <<"b", "o">>] :
        c \in {1, DiscordOtherChannelId}, t \in DiscordLiveTexts}
    \cup {[kind |-> "Other", channel_id |-> 0, content |-> NoText, author |-> NoText]}

DiscordThreads == {DiscordChannelIds[k] : k \in 1..Len(DiscordChannelIds)}

\* The state new() returns in, its threads spawned and not yet run
DiscordInit ==
    /\ NoCursor
    /\ conn = [adapter |-> "discord",
               name |-> DiscordServerName,
               channels |-> BiMap_new(DiscordChannelNames, DiscordChannelIds),
               channel_names |-> DiscordChannelNames]
    /\ sink = <<>>
    /\ lock = [readers |-> {}, writer |-> FALSE, poisoned |-> FALSE]
    /\ hist_pc = [c \in DiscordThreads |-> "start"]
    /\ hist_msgs = [c \in DiscordThreads |-> <<>>]
    /\ live_pc = "start"
    /\ live_in = <<>>
    /\ caller_pc = "idle"
    /\ call = [op |-> "none"]
    /\ n_calls = 0
    /\ remote = <<>>

\* handle.read().unwrap() of a history thread: waits while the lock is
\* write-held, panics when it is poisoned
DiscordHistory_read(c) ==
    /\ conn.adapter = "discord"
    /\ hist_pc[c] = "start"
    /\ ~lock.writer
    /\ IF lock.poisoned
          THEN /\ hist_pc' = [hist_pc EXCEPT ![c] = "panicked"]
               /\ UNCHANGED lock
          ELSE /\ hist_pc' = [hist_pc EXCEPT ![c] = "reading"]
               /\ lock' = [lock EXCEPT !.readers = @ \cup {HistThread(c)}]
    /\ UNCHANGED <<conn, sink, hist_msgs, live_pc, live_in,
                   caller_pc, call, n_calls, remote>>
    /\ UNCHANGED cursorVars

\* get_messages(id, MostRecent, None) answers; an error is reported and
\* becomes an empty page; the read guard is dropped; the page is sorted
DiscordHistory_get_messages(c, ok, page) ==
    /\ conn.adapter = "discord"
    /\ hist_pc[c] = "reading"
    /\ lock' = [lock EXCEPT !.readers = @ \ {HistThread(c)}]
    /\ IF ok
          THEN /\ hist_msgs' = [hist_msgs EXCEPT ![c] = SortByTimestamp(page)]
               /\ hist_pc' = [hist_pc EXCEPT ![c] = "emit"]
               /\ UNCHANGED sink
          ELSE /\ sink' = Send(sink, ErrorEvent("get_messages", HistThread(c)))
               /\ hist_msgs' = [hist_msgs EXCEPT ![c] = SortByTimestamp(<<>>)]
               /\ hist_pc' = [hist_pc EXCEPT ![c] = "emit"]
    /\ UNCHANGED <<conn, live_pc, live_in, caller_pc, call, n_calls, remote>>
    /\ UNCHANGED cursorVars

\* One turn of `for m in messages`: send Event::HistoryMessage
DiscordHistory_send_message(c) ==
    /\ conn.adapter = "discord"
    /\ hist_pc[c] = "emit"
    /\ hist_msgs[c] # <<>>
    /\ LET m == Head(hist_msgs[c])
       IN  /\ sink' = Send(sink,
                  Event("HistoryMessage", BiMap_get_human(conn.channels, c),
                        m.author, m.content, FALSE, "", HistThread(c), m.timestamp))
           /\ hist_msgs' = [hist_msgs EXCEPT ![c] = Tail(@)]
           /\ UNCHANGED hist_pc
    /\ UNCHANGED <<conn, lock, live_pc, live_in, caller_pc, call, n_calls, remote>>
    /\ UNCHANGED cursorVars

\* After the loop: send Event::HistoryLoaded and end
DiscordHistory_send_loaded(c) ==
    /\ conn.adapter = "discord"
    /\ hist_pc[c] = "emit"
    /\ hist_msgs[c] = <<>>
    /\ sink' = Send(sink, HistoryLoadedEvent(BiMap_get_human(conn.channels, c),
                                               HistThread(c)))
    /\ hist_pc' = [hist_pc EXCEPT ![c] = "done"]
    /\ UNCHANGED <<conn, lock, hist_msgs, live_pc, live_in, caller_pc, call,
                   n_calls, remote>>
    /\ UNCHANGED cursorVars

\* handle.read().unwrap() of the live thread
DiscordLive_read ==
    /\ conn.adapter = "discord"
    /\ live_pc = "start"
    /\ ~lock.writer
    /\ IF lock.poisoned
          THEN /\ live_pc' = "panicked"
               /\ UNCHANGED lock
          ELSE /\ live_pc' = "reading"
               /\ lock' = [lock EXCEPT !.readers = @ \cup {LiveThread}]
    /\ UNCHANGED <<conn, sink, hist_pc, hist_msgs, live_in,
                   caller_pc, call, n_calls, remote>>
    /\ UNCHANGED cursorVars

\* get_current_user().unwrap(); the read guard is dropped
DiscordLive_get_current_user(ok) ==
    /\ conn.adapter = "discord"
    /\ live_pc = "reading"
    /\ lock' = [lock EXCEPT !.readers = @ \ {LiveThread}]
    /\ live_pc' = IF ok THEN "loop" ELSE "panicked"
    /\ UNCHANGED <<conn, sink, hist_pc, hist_msgs, live_in,
                   caller_pc, call, n_calls, remote>>
    /\ UNCHANGED cursorVars

\* The Event a MessageCreate on a channel of the table is sent as
DiscordLiveKind(content) == IF Contains(content, DiscordMyMention) THEN "Mention" ELSE "Message"

\* One turn of `while let Ok(ev) = connection.recv_event()`
DiscordLive_recv_event(ok, ev) ==
    /\ conn.adapter = "discord"
    /\ live_pc = "loop"
    /\ Len(live_in) < MaxLive
    /\ live_in' = Append(live_in, [ok |-> ok, ev |-> ev])
    /\ LET by == <<"live", Len(live_in) + 1>>
       IN  IF ~ok
              THEN /\ live_pc' = "done"
                   /\ UNCHANGED sink
              ELSE IF ev.kind = "MessageCreate" /\ BiMap_contains_id(conn.channels, ev.channel_id)
                      THEN \* get_human() of an id the table contains is Some: the
                           \* unwrap_or_else closure (an Error event and
                           \* "unknown_channel") does not run
                           /\ sink' = Send(sink,
                                  Event(DiscordLiveKind(ev.content),
                                        BiMap_get_human(conn.channels, ev.channel_id),
                                        ev.author, ev.content, FALSE, "", by, NoTs))
                           /\ UNCHANGED live_pc
                      ELSE UNCHANGED <<sink, live_pc>>
    /\ UNCHANGED <<conn, lock, hist_pc, hist_msgs, caller_pc, call, n_calls, remote>>
    /\ UNCHANGED cursorVars

\* send_channel_message up to the remote call: self.discord.write().unwrap()
\* waits for the lock to be free and panics when it is poisoned; then
\* get_id(channel).unwrap() panics on a name the table does not hold, with
\* the write guard held, which poisons the lock
DiscordConn_send_channel_message(channel) ==
    /\ conn.adapter = "discord"
    /\ caller_pc = "idle"
    /\ n_calls < MaxCalls
    /\ ~lock.writer /\ lock.readers = {}
    /\ n_calls' = n_calls + 1
    /\ IF lock.poisoned
          THEN /\ caller_pc' = "panicked"
               /\ call' = ConnCall("send_channel_message", channel, "", <<>>, "panicked")
               /\ UNCHANGED lock
          ELSE IF ~BiMap_contains_human(conn.channels, channel)
                  THEN /\ caller_pc' = "panicked"
                       /\ call' = ConnCall("send_channel_message", channel, "", <<>>, "panicked")
                       /\ lock' = [lock EXCEPT !.poisoned = TRUE]
                  ELSE /\ caller_pc' = "sending"
                       /\ call' = ConnCall("send_channel_message", channel, "", <<>>, "pending")
                       /\ lock' = [lock EXCEPT !.writer = TRUE]
    /\ UNCHANGED <<conn, sink, hist_pc, hist_msgs, live_pc, live_in, remote>>
    /\ UNCHANGED cursorVars

\* dis.send_message(..) answers; an error is reported; the write guard is
\* dropped and the call returns
DiscordConn_send_message_returns(ok) ==
    /\ conn.adapter = "discord"
    /\ caller_pc = "sending"
    /\ remote' = Append(remote, RemoteCall("send_message",
                                           BiMap_get_id(conn.channels, call.channel)))
    /\ sink' = IF ok THEN sink
               ELSE Send(sink, ErrorEvent("Message failed to send", <<Caller, call.n>>))
    /\ caller_pc' = "idle"
    /\ call' = [call EXCEPT !.outcome = "returned", !.failed = ~ok, !.posts = <<ok>>]
    /\ lock' = [lock EXCEPT !.writer = FALSE]
    /\ UNCHANGED <<conn, hist_pc, hist_msgs, live_pc, live_in, n_calls>>
    /\ UNCHANGED cursorVars

\* fn handle_cmd(&mut self, _cmd: String, _args: Vec<String>) {}
DiscordConn_handle_cmd(cmd, args) ==
    /\ conn.adapter = "discord"
    /\ caller_pc = "idle"
    /\ n_calls < MaxCalls
    /\ n_calls' = n_calls + 1
    /\ call' = ConnCall("handle_cmd", NoText, cmd, args, "returned")
    /\ UNCHANGED <<conn, sink, lock, hist_pc, hist_msgs, live_pc, live_in,
                   caller_pc, remote>>
    /\ UNCHANGED cursorVars

\* Verbs tried on the Discord connection: a Slack verb and an unknown one
DiscordCmds == {"join", "frob"}

DiscordSendChannels == {DiscordChannelNames[1], <<"n", "o">>}

DiscordNext ==
    \/ \E c \in DiscordThreads : DiscordHistory_read(c)
    \/ \E c \in DiscordThreads, ok \in BOOLEAN, page \in DiscordPages :
            /\ (~ok => page = <<>>)
            /\ DiscordHistory_get_messages(c, ok, page)
    \/ \E c \in DiscordThreads : DiscordHistory_send_message(c)
    \/ \E c \in DiscordThreads : DiscordHistory_send_loaded(c)
    \/ DiscordLive_read
    \/ \E ok \in BOOLEAN : DiscordLive_get_current_user(ok)
    \/ \E ok \in BOOLEAN, ev \in DiscordEvents :
            /\ (~ok => ev.kind = "Other")
            /\ DiscordLive_recv_event(ok, ev)
    \/ \E channel \in DiscordSendChannels : DiscordConn_send_channel_message(channel)
    \/ \E ok \in BOOLEAN : DiscordConn_send_message_returns(ok)
    \/ \E cmd \in DiscordCmds, args \in ArgLists({<<"x">>}, MaxArgs) :
            DiscordConn_handle_cmd(cmd, args)

DiscordSpec == DiscordInit /\ [][DiscordNext]_vars

\* Fair scheduling: a spawned history thread that can take a step, and a
\* send_message the backend has to answer, eventually does
DiscordFairness ==
    /\ \A c \in DiscordThreads :
          /\ WF_vars(DiscordHistory_read(c))
          /\ WF_vars(\E ok \in BOOLEAN, page \in DiscordPages :
                        (~ok => page = <<>>) /\ DiscordHistory_get_messages(c, ok, page))
          /\ WF_vars(DiscordHistory_send_message(c))
          /\ WF_vars(DiscordHistory_send_loaded(c))
    /\ WF_vars(\E ok \in BOOLEAN : DiscordConn_send_message_returns(ok))

DiscordFairSpec == DiscordSpec /\ DiscordFairness

(***************************************************************************)
(* SlackConn (slack_conn.rs)                                               *)
(***************************************************************************)
\* Option<T>: Some(x) is <<x>>, None is <<>>
Some(x) == <<x>>
NoneOpt == <<>>

SlackTeamName == "team"

\* rtm.start's users, as listed: ids and names
SlackUserIds == <<<<"U", "1">>, <<"U", "2">>>>
SlackUserNames == <<<<"a", "l">>, <<"b", "o">>>>

\* slf.name
SlackSelfName == <<"a", "l">>

\* The joined, non-archived channels of rtm.start as (name, id) pairs; the
\* backend may list them in any order
SlackChannel1 == [name |-> <<"g", "e", "n">>, id |-> <<"C", "1">>]
SlackChannel2 == [name |-> <<"d", "e", "v">>, id |-> <<"C", "2">>]
SlackListings == {<<SlackChannel1, SlackChannel2>>, <<SlackChannel2, SlackChannel1>>}

\* A channel id that is not in the table
SlackOtherChannelId == <<"C", "9">>

\* channel_names.sort()
RECURSIVE SortNames(_)
SortNames(names) ==
    IF names = <<>> THEN <<>>
    ELSE LET init == SortNames(SubSeq(names, 1, Len(names) - 1))
             x == names[Len(names)]
             k == Cardinality({j \in 1..Len(init) : StrLeq(init[j], x)})
         IN  SubSeq(init, 1, k) \o <<x>> \o SubSeq(init, k + 1, Len(init))

\* (format!("<@{}>", id), format!("@{}", human)) for each zipped pair
MentionPatterns(ids, humans) ==
    [k \in 1..Len(ids) |->
        [code |-> <<"<", "@">> \o ids[k] \o <<">">>, human |-> <<"@">> \o humans[k]]]

\* (format!("<#{}|{}>", id, human), format!("#{}", human)) for each zipped pair
ChannelPatterns(ids, humans) ==
    [k \in 1..Len(ids) |->
        [code |-> <<"<", "#">> \o ids[k] \o <<"|">> \o humans[k] \o <<">">>,
         human |-> <<"#">> \o humans[k]]]

\* text.replace(code, human) for every pattern, in order
RECURSIVE ReplaceCodes(_, _)
ReplaceCodes(text, patterns) ==
    IF patterns = <<>> THEN text
    ELSE ReplaceCodes(Replace(text, Head(patterns).code, Head(patterns).human),
                      Tail(patterns))

\* text.replace(human, code) for every pattern, in order
RECURSIVE ReplaceHumans(_, _)
ReplaceHumans(text, patterns) ==
    IF patterns = <<>> THEN text
    ELSE ReplaceHumans(Replace(text, Head(patterns).human, Head(patterns).code),
                       Tail(patterns))

\* The first half of to_omni: the escapes, then the mention codes, then the
\* channel codes
Unescape(text) ==
    Replace(Replace(Replace(text, <<"&", "a", "m", "p", ";">>, <<"&">>),
                    <<"&", "l", "t", ";">>, <<"<">>),
            <<"&", "g", "t", ";">>, <<">">>)

\* The rewriting of to_omni with every mention code rewritten to the first
\* user's name
OmniText_FirstHuman(h, text) ==
    ReplaceCodes(ReplaceCodes(Unescape(text),
                              [k \in 1..Len(h.mention_patterns) |->
                                  [h.mention_patterns[k] EXCEPT
                                      !.human = h.mention_patterns[1].human]]),
                 h.channel_patterns)

OmniText(h, text) ==
    ReplaceCodes(ReplaceCodes(Unescape(text), h.mention_patterns), h.channel_patterns)

\* Handler::to_omni: Some(Message) or None
Handler_to_omni(h, message) ==
    IF message.user # NoneOpt /\ message.text # NoneOpt /\ message.channel # NoneOpt
       THEN LET user == message.user[1]
                text == OmniText(h, message.text[1])
                channel == message.channel[1]
            IN  IF BiMap_contains_id(h.channels, channel)
                   THEN Some([server |-> h.server_name,
                              channel |-> BiMap_get_human(h.channels, channel),
                              sender |-> IF BiMap_contains_id(h.users, user)
                                            THEN BiMap_get_human(h.users, user)
                                            ELSE user,
                              is_mention |-> Contains(text, h.my_name),
                              contents |-> text])
                   ELSE NoneOpt
       ELSE NoneOpt

\* Handler::to_slack
Handler_to_slack(h, text) ==
    ReplaceHumans(ReplaceHumans(text, h.mention_patterns), h.channel_patterns)

\* What SlackConn::new builds from rtm.start's answer
SlackConn_new(listing) ==
    LET channel_names == [k \in 1..Len(listing) |-> listing[k].name]
        channel_ids == [k \in 1..Len(listing) |-> listing[k].id]
        users == BiMap_new(SlackUserNames, SlackUserIds)
        channels == BiMap_new(channel_names, channel_ids)
        sorted == SortNames(channel_names)
        handler == [channel_patterns |-> ChannelPatterns(channel_ids, sorted),
                    mention_patterns |-> MentionPatterns(SlackUserIds, SlackUserNames),
                    channels |-> channels,
                    users |-> users,
                    server_name |-> SlackTeamName,
                    my_name |-> SlackSelfName,
                    my_mention |-> <<"<", "@">> \o SlackSelfName \o <<">">>]
    IN  [adapter |-> "slack",
         team_name |-> SlackTeamName,
         users |-> users,
         channels |-> channels,
         channel_names |-> sorted,
         last_message_timestamp |-> NoText,
         handler |-> handler,
         \* what each history thread was spawned with:
         \* channel_names.zip(channel_ids)
         threads |-> [k \in 1..Len(listing) |->
                         [channel_name |-> sorted[k], channel_id |-> channel_ids[k]]]]

SlackThreads == 1..2

SlackInit ==
    /\ NoCursor
    /\ \E listing \in SlackListings : conn = SlackConn_new(listing)
    /\ sink = <<>>
    /\ lock = [readers |-> {}, writer |-> FALSE, poisoned |-> FALSE]
    /\ hist_pc = [k \in SlackThreads |-> "start"]
    /\ hist_msgs = [k \in SlackThreads |-> <<>>]
    /\ live_pc = "loop"
    /\ live_in = <<>>
    /\ caller_pc = "idle"
    /\ call = [op |-> "none"]
    /\ n_calls = 0
    /\ remote = <<>>

\* The Event a Message of to_omni is sent as
OmniEvent(kind, m, by, ts) ==
    Event(kind, m.channel, m.sender, m.contents, m.is_mention, "", by, ts)

\* The frames the websocket may deliver
SlackLiveTexts ==
    {Txt_hi, <<"o", "<", "@", "U", "1", ">">>,
     <<"<", "#">> \o SlackChannel1.id \o <<"|">> \o SlackChannel1.name \o <<">">>}

SlackStandard(user, text, channel, ts) ==
    [standard |-> TRUE, user |-> user, text |-> text, channel |-> channel, ts |-> ts]

SlackFrames ==
    {[frame |-> "Text", pong_ok |-> TRUE,
      message |-> SlackStandard(Some(SlackUserIds[2]), Some(t), Some(SlackChannel1.id), 0)] :
        t \in SlackLiveTexts}
    \cup {[frame |-> "Text", pong_ok |-> TRUE,
           message |-> SlackStandard(Some(SlackUserIds[2]), Some(Txt_hi),
                                     Some(SlackOtherChannelId), 0)]}
    \cup {[frame |-> "Text", pong_ok |-> TRUE,
           message |-> SlackStandard(NoneOpt, Some(Txt_hi), Some(SlackChannel1.id), 0)]}
    \cup {[frame |-> "Text", pong_ok |-> TRUE,
           message |-> [standard |-> FALSE, user |-> NoneOpt, text |-> NoneOpt,
                        channel |-> NoneOpt, ts |-> 0]]}
    \cup {[frame |-> f, pong_ok |-> ok,
           message |-> [standard |-> FALSE, user |-> NoneOpt, text |-> NoneOpt,
                        channel |-> NoneOpt, ts |-> 0]] :
            f \in {"Ping"}, ok \in BOOLEAN}
    \cup {[frame |-> "Err", pong_ok |-> TRUE,
           message |-> [standard |-> FALSE, user |-> NoneOpt, text |-> NoneOpt,
                        channel |-> NoneOpt, ts |-> 0]]}

\* The kind of Event the live thread sends a converted message as
SlackLiveKind(m) == "Message"

\* One turn of the live thread's `loop`: websocket.recv_message()
SlackLive_recv_message(f) ==
    /\ conn.adapter = "slack"
    /\ live_pc = "loop"
    /\ Len(live_in) < MaxLive
    /\ live_in' = Append(live_in, f)
    /\ LET by == <<"live", Len(live_in) + 1>>
           omni == Handler_to_omni(conn.handler, f.message)
       IN  IF f.frame = "Text"
              THEN IF f.message.standard /\ omni # NoneOpt
                      THEN sink' = Send(sink, OmniEvent(SlackLiveKind(omni[1]), omni[1],
                                                          by, NoTs))
                      ELSE UNCHANGED sink
              ELSE IF f.frame = "Ping" /\ ~f.pong_ok
                      THEN sink' = Send(sink, ErrorEvent("Failed to Pong", by))
                      ELSE UNCHANGED sink
    /\ UNCHANGED <<conn, lock, hist_pc, hist_msgs, live_pc, caller_pc, call, n_calls, remote>>
    /\ UNCHANGED cursorVars

\* The history pages the backend may answer with: at most MaxHist messages
\* with distinct timestamps, in any order
SlackHistoryMessage(t) == SlackStandard(Some(SlackUserIds[2]), Some(Txt_hi), NoneOpt, t)

SlackPages == PagesOf({SlackHistoryMessage(t) : t \in 1..MaxHist}, MaxHist)

\* response.messages.unwrap().iter().rev()
PageOrder(page) == [k \in 1..Len(page) |-> page[Len(page) + 1 - k]]

\* channels::history answers: Ok with a page, Ok without messages (the
\* unwrap() panics), Err(ChannelNotFound) or another Err
SlackHistory_history(k, result, page) ==
    /\ conn.adapter = "slack"
    /\ hist_pc[k] = "start"
    /\ CASE result = "Ok" ->
                /\ hist_msgs' = [hist_msgs EXCEPT ![k] = PageOrder(page)]
                /\ hist_pc' = [hist_pc EXCEPT ![k] = "emit"]
                /\ UNCHANGED sink
         [] result = "OkNone" ->
                /\ hist_pc' = [hist_pc EXCEPT ![k] = "panicked"]
                /\ UNCHANGED <<sink, hist_msgs>>
         [] result = "ChannelNotFound" ->
                /\ hist_pc' = [hist_pc EXCEPT ![k] = "groups"]
                /\ UNCHANGED <<sink, hist_msgs>>
         [] OTHER ->
                /\ sink' = Send(sink, ErrorEvent("channels.history", HistThread(k)))
                /\ hist_pc' = [hist_pc EXCEPT ![k] = "done"]
                /\ UNCHANGED hist_msgs
    /\ UNCHANGED <<conn, lock, live_pc, live_in, caller_pc, call, n_calls, remote>>
    /\ UNCHANGED cursorVars

\* groups::history answers, after channels::history said ChannelNotFound
SlackHistory_groups_history(k, result, page) ==
    /\ conn.adapter = "slack"
    /\ hist_pc[k] = "groups"
    /\ CASE result = "Ok" ->
                /\ hist_msgs' = [hist_msgs EXCEPT ![k] = PageOrder(page)]
                /\ hist_pc' = [hist_pc EXCEPT ![k] = "emit"]
                /\ UNCHANGED sink
         [] result = "OkNone" ->
                /\ hist_pc' = [hist_pc EXCEPT ![k] = "panicked"]
                /\ UNCHANGED <<sink, hist_msgs>>
         [] OTHER ->
                /\ sink' = Send(sink, ErrorEvent("groups.history", HistThread(k)))
                /\ hist_pc' = [hist_pc EXCEPT ![k] = "done"]
                /\ UNCHANGED hist_msgs
    /\ UNCHANGED <<conn, lock, live_pc, live_in, caller_pc, call, n_calls, remote>>
    /\ UNCHANGED cursorVars

\* One turn of `for message in ...`: the message's channel is set to the
\* thread's channel_id, and it is sent when to_omni converts it
SlackHistory_send_message(k) ==
    /\ conn.adapter = "slack"
    /\ hist_pc[k] = "emit"
    /\ hist_msgs[k] # <<>>
    /\ LET message == Head(hist_msgs[k])
           omni == Handler_to_omni(conn.handler,
                       [message EXCEPT !.channel = Some(conn.threads[k].channel_id)])
       IN  IF message.standard /\ omni # NoneOpt
              THEN sink' = Send(sink, OmniEvent("HistoryMessage", omni[1], HistThread(k),
                                                  [secs |-> message.ts, sub |-> 0]))
              ELSE UNCHANGED sink
    /\ hist_msgs' = [hist_msgs EXCEPT ![k] = Tail(@)]
    /\ UNCHANGED <<conn, lock, hist_pc, live_pc, live_in, caller_pc, call, n_calls, remote>>
    /\ UNCHANGED cursorVars

\* After the loop: send Event::HistoryLoaded with the thread's channel_name
SlackHistory_send_loaded(k) ==
    /\ conn.adapter = "slack"
    /\ hist_pc[k] = "emit"
    /\ hist_msgs[k] = <<>>
    /\ sink' = Send(sink, HistoryLoadedEvent(conn.threads[k].channel_name, HistThread(k)))
    /\ hist_pc' = [hist_pc EXCEPT ![k] = "done"]
    /\ UNCHANGED <<conn, lock, hist_msgs, live_pc, live_in, caller_pc, call, n_calls, remote>>
    /\ UNCHANGED cursorVars

\* The threads SlackConn::new spawns: the live thread and one history
\* thread per listed channel
SlackNext ==
    \/ \E f \in SlackFrames : SlackLive_recv_message(f)
    \/ \E k \in SlackThreads, result \in {"Ok", "OkNone", "ChannelNotFound", "Err"},
          page \in SlackPages :
            /\ (result # "Ok" => page = <<>>)
            /\ SlackHistory_history(k, result, page)
    \/ \E k \in SlackThreads, result \in {"Ok", "OkNone", "Err"}, page \in SlackPages :
            /\ (result # "Ok" => page = <<>>)
            /\ SlackHistory_groups_history(k, result, page)
    \/ \E k \in SlackThreads : SlackHistory_send_message(k)
    \/ \E k \in SlackThreads : SlackHistory_send_loaded(k)

SlackSpec == SlackInit /\ [][SlackNext]_vars

\* Which arm of handle_cmd's match a verb with only the verb checked for
\* "delete"
SlackCmdArm_DeleteAnyArity(cmd, n) ==
    CASE cmd = "join" /\ n = 1 -> "join"
      [] cmd = "leave" /\ n = 1 -> "leave"
      [] cmd = "delete" -> "delete"
      [] cmd = "update" /\ n = 1 -> "update"
      [] cmd = "search" /\ n = 1 -> "search"
      [] cmd = "users" /\ n = 0 -> "users"
      [] OTHER -> "none"

\* match (cmd.as_ref(), args.len()): the arm taken
SlackCmdArm(cmd, n) ==
    CASE cmd = "join" /\ n = 1 -> "join"
      [] cmd = "leave" /\ n = 1 -> "leave"
      [] cmd = "delete" /\ n = 0 -> "delete"
      [] cmd = "update" /\ n = 1 -> "update"
      [] cmd = "search" /\ n = 1 -> "search"
      [] cmd = "users" /\ n = 0 -> "users"
      [] OTHER -> "none"

\* SlackConn::handle_cmd; ok is the answer of the remote call, if one is made
SlackConn_handle_cmd(cmd, args, ok) ==
    /\ conn.adapter = "slack"
    /\ caller_pc = "idle"
    /\ n_calls < MaxCalls
    /\ n_calls' = n_calls + 1
    /\ LET arm == SlackCmdArm(cmd, Len(args))
           \* the call ends by returning; failed: its remote call went wrong
           returns(failed) ==
               /\ caller_pc' = "idle"
               /\ call' = [ConnCall("handle_cmd", NoText, cmd, args, "returned")
                               EXCEPT !.failed = failed]
           panics(failed) ==
               /\ caller_pc' = "panicked"
               /\ call' = [ConnCall("handle_cmd", NoText, cmd, args, "panicked")
                               EXCEPT !.failed = failed]
       IN  CASE arm = "join" ->
                    /\ remote' = Append(remote, RemoteCall("channels.join", args[1]))
                    /\ IF ok THEN returns(FALSE) ELSE panics(TRUE)
             [] arm = "leave" ->
                    IF BiMap_contains_human(conn.channels, args[1])
                       THEN /\ remote' = Append(remote,
                                   RemoteCall("channels.leave",
                                              BiMap_get_id(conn.channels, args[1])))
                            /\ IF ok THEN returns(FALSE) ELSE panics(TRUE)
                       ELSE \* expect("Unknown channel")
                            /\ UNCHANGED remote
                            /\ panics(FALSE)
             [] arm = "delete" ->
                    /\ remote' = Append(remote,
                           RemoteCall("chat.delete", conn.last_message_timestamp))
                    /\ returns(~ok)
             [] arm = "update" ->
                    /\ remote' = Append(remote, RemoteCall("chat.update", args[1]))
                    /\ returns(~ok)
             [] arm = "search" ->
                    /\ remote' = Append(remote, RemoteCall("search.messages", args[1]))
                    /\ returns(~ok)
             [] arm = "users" ->
                    /\ remote' = Append(remote, RemoteCall("users.list", NoText))
                    /\ returns(~ok)
             [] OTHER ->
                    /\ UNCHANGED remote
                    /\ returns(FALSE)
    /\ UNCHANGED <<conn, sink, lock, hist_pc, hist_msgs, live_pc, live_in>>
    /\ UNCHANGED cursorVars

\* The post_message attempts of a send that makes both whatever the first
\* was answered
SlackPostAnswers_AlwaysTwice(first_ok, second_ok) == <<first_ok, second_ok>>

\* The post_message attempts send_channel_message makes, each with its
\* answer: `if post_message(..).is_err() { if let Err(e) = post_message(..)`
SlackPostAnswers(first_ok, second_ok) ==
    IF first_ok THEN <<TRUE>> ELSE <<FALSE, second_ok>>

\* SlackConn::send_channel_message; first_ok and second_ok are the answers
\* of the first post_message and of the retry
SlackConn_send_channel_message(channel, contents, first_ok, second_ok) ==
    /\ conn.adapter = "slack"
    /\ caller_pc = "idle"
    /\ n_calls < MaxCalls
    /\ n_calls' = n_calls + 1
    /\ LET text == Handler_to_slack(conn.handler, contents)
           post == RemoteCall("chat.postMessage", text)
           posts == SlackPostAnswers(first_ok, second_ok)
           failed == ~posts[Len(posts)]
       IN  /\ remote' = remote \o [k \in 1..Len(posts) |-> post]
           /\ sink' = IF failed
                         THEN Send(sink, ErrorEvent("post_message", <<Caller, n_calls + 1>>))
                         ELSE sink
           /\ call' = [ConnCall("send_channel_message", channel, "", <<>>, "returned")
                           EXCEPT !.failed = failed, !.posts = posts]
    /\ UNCHANGED <<conn, lock, hist_pc, hist_msgs, live_pc, live_in, caller_pc>>
    /\ UNCHANGED cursorVars

\* The verbs and arguments the front end passes
Cmds == {"join", "leave", "delete", "update", "search", "users", "frob"}
SlackArgs == {SlackChannel1.name, <<"n", "o">>}
SlackSendTexts == {Txt_hi, <<"@", "a", "l">>}

\* The front end's calls on the Connection.  They share nothing with the
\* spawned threads but the Sender, so they are run on their own.
SlackConnNext ==
    \/ \E cmd \in Cmds, args \in ArgLists(SlackArgs, MaxArgs), ok \in BOOLEAN :
            SlackConn_handle_cmd(cmd, args, ok)
    \/ \E channel \in SlackArgs, contents \in SlackSendTexts, first_ok, second_ok \in BOOLEAN :
            SlackConn_send_channel_message(channel, contents, first_ok, second_ok)

SlackConnSpec == SlackInit /\ [][SlackConnNext]_vars

\* Either adapter's Connection and the calls the front end makes on it
ConnInit == DiscordInit \/ SlackInit

ConnNext == DiscordNext \/ SlackConnNext

ConnSpec == ConnInit /\ [][ConnNext]_vars

\* The front end's calls on either adapter's Connection, with no spawned
\* thread taking a step in between
CallsNext ==
    \/ \E channel \in DiscordSendChannels : DiscordConn_send_channel_message(channel)
    \/ \E ok \in BOOLEAN : DiscordConn_send_message_returns(ok)
    \/ \E cmd \in DiscordCmds, args \in ArgLists({<<"x">>}, MaxArgs) :
            DiscordConn_handle_cmd(cmd, args)
    \/ SlackConnNext

CallsSpec == ConnInit /\ [][CallsNext]_vars

\* Either adapter's spawned threads (and, for Discord, the calls that share
\* the client handle's lock with them)
ThreadsNext == DiscordNext \/ SlackNext

ThreadsSpec == ConnInit /\ [][ThreadsNext]_vars

\* The spawned threads of either adapter on their own, the live thread
\* receiving message frames only
LiveOrderNext ==
    \/ \E c \in DiscordThreads : DiscordHistory_read(c)
    \/ \E c \in DiscordThreads, ok \in BOOLEAN, page \in DiscordPages :
            /\ (~ok => page = <<>>)
            /\ DiscordHistory_get_messages(c, ok, page)
    \/ \E c \in DiscordThreads : DiscordHistory_send_message(c)
    \/ \E c \in DiscordThreads : DiscordHistory_send_loaded(c)
    \/ DiscordLive_read
    \/ \E ok \in BOOLEAN : DiscordLive_get_current_user(ok)
    \/ \E ok \in BOOLEAN, ev \in DiscordEvents :
            /\ (~ok => ev.kind = "Other")
            /\ DiscordLive_recv_event(ok, ev)
    \/ \E f \in {g \in SlackFrames : g.frame = "Text"} : SlackLive_recv_message(f)
    \/ \E k \in SlackThreads, result \in {"Ok", "OkNone", "ChannelNotFound", "Err"},
          page \in SlackPages :
            /\ (result # "Ok" => page = <<>>)
            /\ SlackHistory_history(k, result, page)
    \/ \E k \in SlackThreads, result \in {"Ok", "OkNone", "Err"}, page \in SlackPages :
            /\ (result # "Ok" => page = <<>>)
            /\ SlackHistory_groups_history(k, result, page)
    \/ \E k \in SlackThreads : SlackHistory_send_message(k)
    \/ \E k \in SlackThreads : SlackHistory_send_loaded(k)

LiveOrderSpec == ConnInit /\ [][LiveOrderNext]_vars

(***************************************************************************)
(* Construction: DiscordConn::new and SlackConn::new                       *)
(***************************************************************************)
\* What DiscordConn::new does that can fail, in the order it does it, and
\* how it fails: every one is a `?`
DiscordNewSteps ==
    << [step |-> "from_user_token", on_fail |-> "Err"],
       [step |-> "connect",         on_fail |-> "Err"],
       [step |-> "server",          on_fail |-> "Err"] >>

\* What SlackConn::new does that can fail, in the order it does it, and how
\* it fails: a `?` / ok_or(SlackError)? returns Err, an unwrap() panics.
\* "spawn_live" is not a failure point: it marks where the live thread is
\* spawned.
SlackNewSteps ==
    << [step |-> "Client::new",        on_fail |-> "Err"],
       [step |-> "rtm.start",          on_fail |-> "Err"],
       [step |-> "team",               on_fail |-> "Err"],
       [step |-> "team.name",          on_fail |-> "Err"],
       [step |-> "users",              on_fail |-> "Err"],
       [step |-> "member.id/name",     on_fail |-> "Err"],
       [step |-> "channels",           on_fail |-> "Err"],
       [step |-> "channel.name",       on_fail |-> "Err"],
       [step |-> "channel.id",         on_fail |-> "Err"],
       [step |-> "groups",             on_fail |-> "Err"],
       [step |-> "group.is_archived",  on_fail |-> "panicked"],
       [step |-> "group.is_mpim",      on_fail |-> "panicked"],
       [step |-> "group.name",         on_fail |-> "Err"],
       [step |-> "group.id",           on_fail |-> "Err"],
       [step |-> "url",                on_fail |-> "Err"],
       [step |-> "websocket",          on_fail |-> "Err"],
       [step |-> "slf",                on_fail |-> "panicked"],
       [step |-> "slf.name",           on_fail |-> "panicked"],
       [step |-> "spawn_live",         on_fail |-> "Ok"],
       [step |-> "history Client::new", on_fail |-> "panicked"] >>

StepNames(steps) == {steps[k].step : k \in 1..Len(steps)} \ {"spawn_live"}

\* The sets of at most n of the things in S
FaultSets(S, n) == {F \in SUBSET S : Cardinality(F) <= n}

\* The position new() stops at when the things in `faults` go wrong: the
\* first failing step in program order, 0 when none fails
FirstFault(steps, faults) ==
    IF \E k \in 1..Len(steps) : steps[k].step \in faults
       THEN CHOOSE k \in 1..Len(steps) :
                /\ steps[k].step \in faults
                /\ \A j \in 1..(k - 1) : steps[j].step \notin faults
       ELSE 0

\* How new() ends: Ok(Box<Conn>), Err(e) or a panic
NewOutcome(steps, faults) ==
    IF FirstFault(steps, faults) = 0 THEN "Ok"
    ELSE steps[FirstFault(steps, faults)].on_fail

\* Whether new() got as far as spawning the live thread
LiveSpawned(steps, faults) ==
    \/ FirstFault(steps, faults) = 0
    \/ \E k \in 1..(FirstFault(steps, faults) - 1) : steps[k].step = "spawn_live"

NewCall(adapter, faults, outcome) ==
    [op |-> "new", adapter |-> adapter, faults |-> faults, outcome |-> outcome]

\* Before new() is called: no Connection, no thread
NewInit == NoCursor /\ NoConn

\* DiscordConn::new, start to end
DiscordConn_new_call(faults) ==
    /\ conn.adapter = "none"
    /\ call.op = "none"
    /\ LET outcome == NewOutcome(DiscordNewSteps, faults)
       IN  /\ call' = NewCall("discord", faults, outcome)
           /\ IF outcome = "Ok"
                 THEN /\ conn' = [adapter |-> "discord",
                                  name |-> DiscordServerName,
                                  channels |-> BiMap_new(DiscordChannelNames,
                                                         DiscordChannelIds),
                                  channel_names |-> DiscordChannelNames]
                      /\ hist_pc' = [c \in DiscordThreads |-> "start"]
                      /\ hist_msgs' = [c \in DiscordThreads |-> <<>>]
                      /\ live_pc' = "start"
                      /\ caller_pc' = "idle"
                 ELSE /\ caller_pc' = "idle"
                      /\ UNCHANGED <<conn, hist_pc, hist_msgs, live_pc>>
    /\ UNCHANGED <<sink, lock, live_in, n_calls, remote>>
    /\ UNCHANGED cursorVars

\* SlackConn::new, start to end
SlackConn_new_call(faults, listing) ==
    /\ conn.adapter = "none"
    /\ call.op = "none"
    /\ LET outcome == NewOutcome(SlackNewSteps, faults)
       IN  /\ call' = NewCall("slack", faults, outcome)
           /\ IF outcome = "Ok"
                 THEN /\ conn' = SlackConn_new(listing)
                      /\ hist_pc' = [k \in SlackThreads |-> "start"]
                      /\ hist_msgs' = [k \in SlackThreads |-> <<>>]
                      /\ live_pc' = "loop"
                      /\ caller_pc' = "idle"
                 ELSE /\ caller_pc' = IF outcome = "panicked" THEN "panicked" ELSE "idle"
                      /\ live_pc' = IF LiveSpawned(SlackNewSteps, faults)
                                       THEN "loop" ELSE "none"
                      /\ UNCHANGED <<conn, hist_pc, hist_msgs>>
    /\ UNCHANGED <<sink, lock, live_in, n_calls, remote>>
    /\ UNCHANGED cursorVars

NewNext ==
    \/ \E faults \in FaultSets(StepNames(DiscordNewSteps), MaxFaults) :
            DiscordConn_new_call(faults)
    \/ \E faults \in FaultSets(StepNames(SlackNewSteps), MaxFaults),
          listing \in SlackListings :
            SlackConn_new_call(faults, listing)

NewSpec == NewInit /\ [][NewNext]_vars

(***************************************************************************)
(* Text rewriting: Handler::to_slack and Handler::to_omni on their own     *)
(***************************************************************************)
\* The user names rtm.start may list for the two users: the names used
\* elsewhere, and a pair in which one name begins with the other
RewriteUserNames == {SlackUserNames, <<<<"a", "l">>, <<"a", "l", "x">>>>}

\* The Connection SlackConn::new builds for a listing and these user names
RewriteConn(listing, names) ==
    LET c == SlackConn_new(listing)
        users == BiMap_new(names, SlackUserIds)
    IN  [c EXCEPT !.users = users,
                  !.handler = [c.handler EXCEPT
                                  !.users = users,
                                  !.mention_patterns = MentionPatterns(SlackUserIds, names)]]

\* The human forms present in a handler's tables: @name and #name
HumanForms(h) ==
    {h.mention_patterns[k].human : k \in 1..Len(h.mention_patterns)}
    \cup {h.channel_patterns[k].human : k \in 1..Len(h.channel_patterns)}

\* The texts built from at most n of the forms in F
RECURSIVE FormTexts(_, _)
FormTexts(F, n) ==
    IF n = 0 THEN {<<>>}
    ELSE {<<>>} \cup {f \o rest : f \in F, rest \in FormTexts(F, n - 1)}

RewriteInit ==
    /\ NoCursor
    /\ \E listing \in SlackListings, names \in RewriteUserNames :
          conn = RewriteConn(listing, names)
    /\ sink = <<>>
    /\ lock = [readers |-> {}, writer |-> FALSE, poisoned |-> FALSE]
    /\ hist_pc = <<>>
    /\ hist_msgs = <<>>
    /\ live_pc = "none"
    /\ live_in = <<>>
    /\ caller_pc = "idle"
    /\ call = [op |-> "none"]
    /\ n_calls = 0
    /\ remote = <<>>

\* handler.to_slack(text)
Rewrite_to_slack(text) ==
    /\ conn.adapter = "slack"
    /\ call.op = "none"
    /\ call' = [op |-> "rewrite", stage |-> 1, text |-> text,
                slack |-> Handler_to_slack(conn.handler, text),
                omni |-> NoText, slack_again |-> NoText]
    /\ UNCHANGED <<conn, sink, lock, hist_pc, hist_msgs, live_pc, live_in,
                   caller_pc, n_calls, remote>>
    /\ UNCHANGED cursorVars

\* The text rewriting of handler.to_omni on the result
Rewrite_to_omni ==
    /\ conn.adapter = "slack"
    /\ call.op = "rewrite"
    /\ call.stage = 1
    /\ call' = [call EXCEPT !.stage = 2, !.omni = OmniText(conn.handler, call.slack)]
    /\ UNCHANGED <<conn, sink, lock, hist_pc, hist_msgs, live_pc, live_in,
                   caller_pc, n_calls, remote>>
    /\ UNCHANGED cursorVars

\* handler.to_slack on that
Rewrite_to_slack_again ==
    /\ conn.adapter = "slack"
    /\ call.op = "rewrite"
    /\ call.stage = 2
    /\ call' = [call EXCEPT !.stage = 3,
                            !.slack_again = Handler_to_slack(conn.handler, call.omni)]
    /\ UNCHANGED <<conn, sink, lock, hist_pc, hist_msgs, live_pc, live_in,
                   caller_pc, n_calls, remote>>
    /\ UNCHANGED cursorVars

RewriteNext ==
    \/ \E text \in FormTexts(HumanForms(conn.handler), MaxForms) : Rewrite_to_slack(text)
    \/ Rewrite_to_omni
    \/ Rewrite_to_slack_again

RewriteSpec == RewriteInit /\ [][RewriteNext]_vars

(***************************************************************************)
(* Properties of CursorVec (checked under CursorSpec)                      *)
(***************************************************************************)
HasCall == calls # <<>>
LastCall == calls[Len(calls)]
HasTwoCalls == Len(calls) = 2
FirstOfTwo == calls[1]

\* C1: whatever sequence of next, prev, wrapping_seek and push calls has
\* been made since new(first), the vec is not empty and the active index is
\* strictly less than its length, so get() reads the element at the active
\* index and never reads out of range.
C1_IndexInRange ==
    /\ Len(vec) >= 1
    /\ index \in 0..(Len(vec) - 1)
    /\ (HasCall /\ LastCall.op = "get") =>
           /\ ~LastCall.fault
           /\ LastCall.ret = vec[index + 1]

\* C1 witness: get() is called right after a next() that wrapped from the
\* last position of a vec of three elements.
C1_Witness ==
    /\ HasTwoCalls
    /\ FirstOfTwo.op = "next"
    /\ FirstOfTwo.pre = 2
    /\ Len(FirstOfTwo.prevec) = 3
    /\ LastCall.op = "get"
    /\ LastCall.ret = vec[1]

\* C2 (as claimed): next() sets the index to (k+1) mod L and prev() sets it
\* to (k-1) mod L; prev() at 0 yields L-1 and next() at L-1 yields 0.
C2_NextPrevModular ==
    HasCall =>
        LET c == LastCall
            L == Len(c.prevec)
        IN  /\ c.op = "next" => index = (c.pre + 1) % L
            /\ c.op = "prev" => index = (c.pre + L - 1) % L

\* C3 (as claimed): next() then prev(), or prev() then next(), leaves the
\* active index equal to its original value.
C3_NextPrevRoundTrip ==
    (/\ HasTwoCalls
     /\ <<FirstOfTwo.op, LastCall.op>> \in {<<"next", "prev">>, <<"prev", "next">>})
        => index = FirstOfTwo.pre

\* C4: wrapping_seek(i) leaves the active index equal to i mod L, for any
\* i including i >= L, and does not change the sequence.
C4_SeekModLen ==
    (HasCall /\ LastCall.op = "wrapping_seek") =>
        /\ ~LastCall.fault
        /\ index = LastCall.i % Len(LastCall.prevec)
        /\ vec = LastCall.prevec

\* C4 witness: a seek beyond the end of a vec of three elements that lands
\* on a position other than the first and the last.
C4_Witness ==
    /\ HasCall
    /\ LastCall.op = "wrapping_seek"
    /\ Len(vec) = 3
    /\ LastCall.i = 4
    /\ LastCall.pre = 2
    /\ index = 1

\* C5: try_get_at(i) and push(item) leave the active index unchanged;
\* try_get_at(i) returns the element at position i when i < length and None
\* otherwise and changes nothing; push(item) makes the vec one longer, puts
\* item last and keeps every earlier element at its position.
C5_TryGetAtPushFrame ==
    HasCall =>
        LET c == LastCall
        IN  /\ c.op = "try_get_at" =>
                /\ index = c.pre
                /\ vec = c.prevec
                /\ c.ret = (IF c.i < Len(vec) THEN vec[c.i + 1] ELSE None)
            /\ c.op = "push" =>
                /\ index = c.pre
                /\ Len(vec) = Len(c.prevec) + 1
                /\ vec[Len(vec)] = c.item
                /\ \A j \in 1..Len(c.prevec) : vec[j] = c.prevec[j]

\* C5 witness: a push onto a vec whose cursor is not at 0, followed by a
\* try_get_at of the new last position, which returns the pushed item.
C5_Witness ==
    /\ HasTwoCalls
    /\ FirstOfTwo.op = "push"
    /\ FirstOfTwo.pre = 1
    /\ FirstOfTwo.item = "b"
    /\ FirstOfTwo.prevec = <<"a", "a">>
    /\ LastCall.op = "try_get_at"
    /\ LastCall.i = 2
    /\ LastCall.ret = "b"
    /\ index = 1

(***************************************************************************)
(* Properties of the adapters                                              *)
(***************************************************************************)
SinkIdx == 1..Len(sink)

\* The positions of the sink holding events sent by `by`
SentBy(by) == {i \in SinkIdx : sink[i].by = by}

HistoryThreads == {sink[i].by : i \in {j \in SinkIdx : sink[j].by[1] = "history"}}

\* C6 (as claimed): for every channel of either adapter, whatever order
\* the backend returns the history page in, the HistoryMessage events of
\* the channel's backfill thread are in ascending timestamp order, they are
\* followed by exactly one HistoryLoaded for that channel, and no
\* HistoryMessage tagged with a channel follows that channel's HistoryLoaded.
C6_HistoryOrdered ==
    /\ \A th \in HistoryThreads :
          LET msgs == {i \in SentBy(th) : sink[i].kind = "HistoryMessage"}
              loaded == {i \in SentBy(th) : sink[i].kind = "HistoryLoaded"}
          IN  /\ \A i, j \in msgs : i < j => ~TsLess(sink[j].ts, sink[i].ts)
              /\ Cardinality(loaded) <= 1
              /\ \A l \in loaded, i \in msgs :
                    /\ i < l
                    /\ sink[l].channel = sink[i].channel
    /\ \A l, i \in SinkIdx :
          (/\ sink[l].kind = "HistoryLoaded"
           /\ sink[i].kind = "HistoryMessage"
           /\ sink[i].channel = sink[l].channel) => i < l

\* The session's mention form in the text an adapter emits: Discord's
\* "<@!id>", Slack's display name of the session's user
MentionForm ==
    IF conn.adapter = "discord" THEN DiscordMyMention ELSE conn.handler.my_name

LiveEvents == {i \in SinkIdx : sink[i].by[1] = "live" /\ sink[i].kind \in {"Message", "Mention"}}

\* C7 (as claimed): a live message on a known channel is sent as a Mention
\* when its text contains the session's mention form and as a Message when
\* it does not.
C7_MentionClassified ==
    \A i \in LiveEvents :
        sink[i].kind = (IF Contains(sink[i].contents, MentionForm) THEN "Mention" ELSE "Message")

\* Whether the n-th backend event is a message creation on a channel that
\* is not in the connection's table
UnknownChannelMessage(n) ==
    IF conn.adapter = "discord"
       THEN /\ live_in[n].ok
            /\ live_in[n].ev.kind = "MessageCreate"
            /\ \A k \in 1..Len(conn.channels.id) : conn.channels.id[k] # live_in[n].ev.channel_id
       ELSE /\ live_in[n].frame = "Text"
            /\ live_in[n].message.standard
            /\ live_in[n].message.channel # NoneOpt
            /\ \A k \in 1..Len(conn.channels.id) :
                  conn.channels.id[k] # live_in[n].message.channel[1]

\* C8 (as claimed): a live message creation on a channel that is not in the
\* table causes exactly one Error event and no Message or Mention event.
C8_UnknownChannelError ==
    \A n \in 1..Len(live_in) :
        UnknownChannelMessage(n) =>
            /\ Cardinality({i \in SentBy(<<"live", n>>) : sink[i].kind = "Error"}) = 1
            /\ \A i \in SentBy(<<"live", n>>) : sink[i].kind \notin {"Message", "Mention"}

\* C9 (as claimed): send_channel_message, for any channel name and text,
\* never panics, and when the delivery failed it has sent an Error event by
\* the time it returns.
C9_SendNeverPanics ==
    call.op = "send_channel_message" =>
        /\ call.outcome # "panicked"
        /\ (call.outcome = "returned" /\ call.failed) =>
               \E i \in SentBy(<<Caller, call.n>>) : sink[i].kind = "Error"

\* The (verb, argument count) pairs an adapter's handle_cmd recognises:
\* none for Discord, six for Slack
C10_Recognised ==
    IF conn.adapter = "slack"
       THEN {<<"join", 1>>, <<"leave", 1>>, <<"delete", 0>>, <<"update", 1>>,
             <<"search", 1>>, <<"users", 0>>}
       ELSE {}

\* C10: handle_cmd with a verb, or a verb and argument count, that the
\* adapter does not recognise returns having issued no remote call, sent no
\* event and changed no field of the Connection.
C10_UnknownVerbIgnored ==
    (call.op = "handle_cmd" /\ <<call.cmd, Len(call.args)>> \notin C10_Recognised) =>
        /\ call.outcome = "returned"
        /\ Len(remote) = call.remote_before
        /\ SentBy(<<Caller, call.n>>) = {}
        /\ conn = call.conn_before

\* C10 witness: Slack's handle_cmd has returned from "delete" with one
\* argument, a verb it knows with an argument count it does not.
C10_Witness ==
    /\ conn.adapter = "slack"
    /\ call.op = "handle_cmd"
    /\ call.cmd = "delete"
    /\ Len(call.args) = 1
    /\ call.outcome = "returned"
    /\ remote = <<>>

(***************************************************************************)
(* Properties of construction (checked under NewSpec)                      *)
(***************************************************************************)
\* The setup failures C11 names: authentication, the handshake, a required
\* field of the start response, the lookup of the target server
C11_SetupFaults ==
    {"from_user_token", "connect", "server",
     "rtm.start", "websocket",
     "team", "team.name", "users", "member.id/name", "channels", "channel.name",
     "channel.id", "groups", "group.is_archived", "group.is_mpim", "group.name",
     "group.id", "url", "slf", "slf.name"}

\* C11 (as claimed): when authentication, the handshake, a required field
\* of the start response or the server lookup fails, new() has returned Err
\* without panicking and there is no Connection.
C11_SetupFailureIsErr ==
    (call.op = "new" /\ call.faults # {} /\ call.faults \subseteq C11_SetupFaults) =>
        /\ call.outcome = "Err"
        /\ caller_pc # "panicked"
        /\ conn.adapter = "none"

(***************************************************************************)
(* Properties of the text rewriting (checked under RewriteSpec)            *)
(***************************************************************************)
\* C12: for a text built only from the human mention and channel forms of
\* the handler's tables, to_slack(to_omni(to_slack(text))) equals
\* to_slack(text).
C12_RewriteRoundTrip ==
    (call.op = "rewrite" /\ call.stage = 3) => call.slack_again = call.slack

\* C12 witness: the round trip has been made on a text with a mention form
\* and a channel form, both of which to_slack turned into codes.
C12_Witness ==
    /\ call.op = "rewrite"
    /\ call.stage = 3
    /\ Contains(call.text, <<"@">>)
    /\ Contains(call.text, <<"#">>)
    /\ Contains(call.slack, <<"<", "@">>)
    /\ Contains(call.slack, <<"<", "#">>)
    /\ call.omni = call.text

(***************************************************************************)
(* Properties of the emitted text                                          *)
(***************************************************************************)
\* The platform codes of the users and channels the Connection knows:
\* Discord's <@id>, <@!id> and <#id>; Slack's <@id> and <#id|name> with the
\* name the channel table gives the id
C13_KnownCodes ==
    IF conn.adapter = "discord"
       THEN {DiscordMention(DiscordUserId), DiscordMyMention}
       ELSE {<<"<", "@">> \o conn.users.id[k] \o <<">">> : k \in 1..Len(conn.users.id)}
            \cup {<<"<", "#">> \o conn.channels.id[k] \o <<"|">> \o conn.channels.human[k]
                      \o <<">">> : k \in 1..Len(conn.channels.id)}

\* C13 (as claimed): the contents of every Message, Mention and
\* HistoryMessage event at the sink hold no platform mention or channel
\* code of a known user or channel.
C13_NoRawCodes ==
    \A i \in SinkIdx :
        sink[i].kind \in {"Message", "Mention", "HistoryMessage"} =>
            \A code \in C13_KnownCodes : ~Contains(sink[i].contents, code)

(***************************************************************************)
(* Properties of failures                                                  *)
(***************************************************************************)
\* C14 (as claimed): after the Error event a backfill thread sends for a
\* failed history fetch, that thread sends nothing more: no HistoryMessage
\* and no HistoryLoaded follows the Error.
C14_NothingAfterFetchError ==
    \A th \in HistoryThreads :
        \A i, j \in SentBy(th) : sink[i].kind = "Error" => j <= i

\* C15 (as claimed): a failing remote call made for the consumer (a send, a
\* history fetch, a remote call of handle_cmd) never panics the thread that
\* made it.
C15_RemoteFailureNeverPanics ==
    /\ (call.op \in {"send_channel_message", "handle_cmd"} /\ call.failed) =>
           /\ call.outcome # "panicked"
           /\ caller_pc # "panicked"
    /\ \A i \in SinkIdx :
           (sink[i].by[1] = "history" /\ sink[i].kind = "Error") =>
               hist_pc[sink[i].by[2]] # "panicked"

\* Whether the n-th receive of the live thread failed
C16_ReceiveFailed(n) ==
    IF conn.adapter = "discord" THEN ~live_in[n].ok ELSE live_in[n].frame = "Err"

\* Whether answering the n-th frame of the live thread failed
C16_PongFailed(n) ==
    conn.adapter = "slack" /\ live_in[n].frame = "Ping" /\ ~live_in[n].pong_ok

\* C16 (as claimed): every failure detected after construction (a failed
\* send or command call, a failed history fetch, a failed receive or pong of
\* the live thread) has put at least one Error event on the sink.
C16_EveryFailureReported ==
    /\ (call.op \in {"send_channel_message", "handle_cmd"} /\ call.failed) =>
           \E i \in SentBy(<<Caller, call.n>>) : sink[i].kind = "Error"
    /\ \A n \in 1..Len(live_in) :
           (C16_ReceiveFailed(n) \/ C16_PongFailed(n)) =>
               \E i \in SentBy(<<"live", n>>) : sink[i].kind = "Error"

(***************************************************************************)
(* Properties of the Discord client handle's lock                          *)
(***************************************************************************)
\* C17 (as claimed): a send_channel_message call never blocks a reader of
\* the Discord client handle: a history thread or the live thread that is
\* about to take the handle for a read can take it, whether or not a send
\* holds it.
C17_SendNeverBlocksReaders ==
    conn.adapter = "discord" =>
        /\ \A c \in DOMAIN hist_pc :
               hist_pc[c] = "start" => ENABLED DiscordHistory_read(c)
        /\ live_pc = "start" => ENABLED DiscordLive_read

(***************************************************************************)
(* Properties of the live thread's order                                   *)
(***************************************************************************)
\* Whether a backend event is a message creation the live thread converts:
\* one on a channel of the table, with every field to_omni needs
C18_Converted(in) ==
    IF conn.adapter = "discord"
       THEN /\ in.ok
            /\ in.ev.kind = "MessageCreate"
            /\ \E k \in 1..Len(conn.channels.id) : conn.channels.id[k] = in.ev.channel_id
       ELSE /\ in.frame = "Text"
            /\ in.message.standard
            /\ in.message.user # NoneOpt
            /\ in.message.text # NoneOpt
            /\ in.message.channel # NoneOpt
            /\ \E k \in 1..Len(conn.channels.id) :
                  conn.channels.id[k] = in.message.channel[1]

\* The text the event made from a converted backend event carries
C18_Contents(in) ==
    IF conn.adapter = "discord" THEN in.ev.content
    ELSE OmniText(conn.handler, in.message.text[1])

C18_IsLive(e) == e.kind \in {"Message", "Mention"}

\* C18: the Message and Mention events at the sink are, in order, the
\* events of the message creations the backend pushed, in the order it
\* pushed them, whatever the history threads have sent in between.
C18_LiveOrder ==
    LET pushed == SelectSeq(live_in, C18_Converted)
        got == SelectSeq(sink, C18_IsLive)
    IN  /\ Len(got) = Len(pushed)
        /\ \A k \in 1..Len(got) : got[k].contents = C18_Contents(pushed[k])

\* C18 witness: two live events with different texts are at the sink with
\* a history thread's event between them.
C18_Witness ==
    \E i, j, k \in SinkIdx :
        /\ i < j /\ j < k
        /\ C18_IsLive(sink[i]) /\ C18_IsLive(sink[k])
        /\ sink[i].contents # sink[k].contents
        /\ sink[j].by[1] = "history"

(***************************************************************************)
(* Properties of the history threads' end                                  *)
(***************************************************************************)
\* C19 (as claimed, the part about how a thread ends): a history thread
\* whose fetch was not answered with an error has ended only after sending
\* HistoryLoaded, and that is the last event it sent.
C19_EndsAfterLoaded ==
    \A c \in DOMAIN hist_pc :
        LET mine == SentBy(HistThread(c))
        IN  (/\ hist_pc[c] \in {"done", "panicked"}
             /\ \A i \in mine : sink[i].kind # "Error") =>
                /\ mine # {}
                /\ sink[CHOOSE i \in mine : \A j \in mine : j <= i].kind = "HistoryLoaded"

(***************************************************************************)
(* Properties of SlackConn::send_channel_message                           *)
(***************************************************************************)
\* C20: a send_channel_message call on the Slack adapter has made one post
\* attempt or two, the second only when the first failed; it has sent
\* exactly one Error event when both failed and no event when one succeeded.
C20_SlackSendRetry ==
    (conn.adapter = "slack" /\ call.op = "send_channel_message") =>
        LET attempts == Len(remote) - call.remote_before
            mine == SentBy(<<Caller, call.n>>)
        IN  /\ attempts = Len(call.posts)
            /\ attempts \in {1, 2}
            /\ attempts = 2 <=> ~call.posts[1]
            /\ \A k \in call.remote_before + 1 .. Len(remote) :
                   remote[k].op = "chat.postMessage"
            /\ IF \E k \in 1..Len(call.posts) : call.posts[k]
                  THEN mine = {}
                  ELSE /\ Cardinality(mine) = 1
                       /\ \A i \in mine : sink[i].kind = "Error"
            /\ call.outcome = "returned"

\* C20 witness: a Slack send has returned after both of its attempts
\* failed, with its Error event at the sink.
C20_Witness ==
    /\ conn.adapter = "slack"
    /\ call.op = "send_channel_message"
    /\ call.posts = <<FALSE, FALSE>>
    /\ Len(remote) = call.remote_before + 2
    /\ \E i \in SinkIdx : sink[i].kind = "Error" /\ sink[i].by = <<Caller, call.n>>

(***************************************************************************)
(* Properties of a CursorVec of one element (checked under CursorSpec)     *)
(***************************************************************************)
\* C21 (as claimed): on a CursorVec holding exactly one element, next() and
\* prev() each complete without fault and leave the active index at 0.
C21_SingleElementStaysAtZero ==
    (/\ HasCall
     /\ LastCall.op \in {"next", "prev"}
     /\ Len(LastCall.prevec) = 1)
        => /\ ~LastCall.fault
           /\ ~cursor_panicked
           /\ index = 0

(***************************************************************************)
(* Properties of the Slack name/identifier pairings                        *)
(***************************************************************************)
\* The name the translation table maps the channel of history thread k to.
TableName(k) == BiMap_get_human(conn.channels, conn.threads[k].channel_id)

\* C22 (as claimed), first half: each channel_patterns entry pairs an
\* identifier with the name the table maps that identifier to.
C22_PatternsAgree ==
    conn.adapter = "slack" =>
        conn.handler.channel_patterns =
            ChannelPatterns([k \in SlackThreads |-> conn.threads[k].channel_id],
                            [k \in SlackThreads |-> TableName(k)])

\* C22 (as claimed), second half: every HistoryLoaded event of a history
\* thread carries the name the table maps the thread's fetched identifier
\* to, which is the channel name its HistoryMessage events carry.
C22_LoadedAgrees ==
    conn.adapter = "slack" =>
        \A i \in SinkIdx : \A k \in SlackThreads :
            sink[i].by = HistThread(k) /\ sink[i].kind \in {"HistoryLoaded", "HistoryMessage"}
                => sink[i].channel = TableName(k)

\* C22 (as claimed): every pairing of a channel name with a channel
\* identifier made after the table is built agrees with the table, for
\* every order in which the backend lists the channels.
C22_PairingsAgreeWithTable == C22_PatternsAgree /\ C22_LoadedAgrees

(***************************************************************************)
(* Properties of the Discord history threads under sends                   *)
(***************************************************************************)
\* Whether the history thread of channel c has pushed its HistoryLoaded.
C23_Loaded(c) ==
    \E i \in SinkIdx : sink[i].kind = "HistoryLoaded" /\ sink[i].by = HistThread(c)

\* C23 (as claimed): under fair scheduling, whenever the consumer thread has
\* called send_channel_message on the Discord adapter, whatever its
\* arguments and outcome, every history thread eventually takes the client
\* handle and pushes its HistoryLoaded sentinel.
C23_SendNeverPreventsLoaded ==
    \A c \in DiscordThreads :
        (call.op = "send_channel_message") ~> C23_Loaded(c)

(***************************************************************************)
(* Properties of the threads new() spawns (checked under NewSpec)          *)
(***************************************************************************)
\* Whether a live or history thread of the adapter exists.
C24_ThreadSpawned == live_pc # "none" \/ hist_pc # <<>>

\* C24, first half: when new() has returned Err, no history or live thread
\* has been spawned, no event has been pushed and there is no Connection.
C24_ErrSpawnsNothing ==
    (call.op = "new" /\ call.outcome = "Err") =>
        /\ ~C24_ThreadSpawned
        /\ sink = <<>>
        /\ conn.adapter = "none"

\* C24, second half: threads are spawned only on a path where new() goes
\* on to return a Connection.
C24_SpawnedOnlyWithConnection ==
    C24_ThreadSpawned =>
        /\ call.op = "new"
        /\ call.outcome = "Ok"
        /\ conn.adapter = call.adapter

\* C24 (as claimed): if construction returns an error no thread has been
\* spawned and no event pushed; threads are spawned only on a path where
\* construction goes on to return a Connection.
C24_ThreadsOnlyAfterSuccess == C24_ErrSpawnsNothing /\ C24_SpawnedOnlyWithConnection

====
